---- MODULE Spec2Model ----
(***************************************************************************)
(* DepthFrame Processing Service: the SQLite depth store                   *)
(* (db/repository.py), the application's store handle (api/dependencies.py)*)
(* and the ingestion orchestrator (ingestion/pipeline.py).                 *)
(*                                                                         *)
(* The database file holds two tables.  A SQL table is a multiset of rows, *)
(* so each table is a bag of records; that a key is unique is a property   *)
(* of the statements the code runs (INSERT OR REPLACE on a PRIMARY KEY),   *)
(* not of the representation.  Every ImageRepository handle owns at most   *)
(* one sqlite3 connection.  Python's sqlite3 opens a transaction           *)
(* implicitly before the first INSERT and keeps it open until commit(),    *)
(* rollback or the end of the connection; inside it the connection reads   *)
(* its own working copy of the tables.                                     *)
(*                                                                         *)
(* Python's None is the empty tuple <<>> and a present Optional value v is *)
(* <<v>>.  Depths are floats; the model draws them from 1..MaxDepth, and   *)
(* the arguments of range queries from 0..MaxDepth+1.                      *)
(***************************************************************************)
EXTENDS Bags, FiniteSets, Integers, Sequences, TLC

\* Number of distinct depth values the model draws from.
MaxDepth == 2
\* Largest number of depths, and of pixel rows, handed to one bulk write.
MaxRows == 2

Depths == 1..MaxDepth
QueryArgs == 0..(MaxDepth + 1)
\* The pixel rows callers write: two rows of equal width whose bytes differ
\* in order, so that a blob cannot be confused with its reverse.
PixelRows == {<<0, 255>>, <<255, 0>>}
MetaKeys == {"source_file", "version"}
MetaValues == {"test.csv", "1.0"}
Handles == {"repo", "app", "ingest", "ingest2"}

VARIABLES
    image_scans,   \* committed table image_scans: a bag of [depth, pixel_data]
    metadata,      \* committed table metadata: a bag of [key, value]
    _conn,         \* handle -> its connection (ImageRepository._conn)
    _repository,   \* api/dependencies.py: the module-level handle, or None
    result,        \* outcome of the last call: [op, kind, msg, value]
    run,           \* the run_ingestion call in progress: its stage and locals
    writer         \* process -> where its store_to_database call is, and its locals

vars == <<image_scans, metadata, _conn, _repository, result, run, writer>>

None == <<>>
Some(v) == <<v>>

Range(f) == {f[i] : i \in DOMAIN f}

RECURSIVE SeqsUpTo(_, _)
SeqsUpTo(S, n) ==
    IF n = 0 THEN {<<>>}
    ELSE LET shorter == SeqsUpTo(S, n - 1)
         IN shorter \cup {Append(s, x) : s \in {t \in shorter : Len(t) = n - 1}, x \in S}

(***************************************************************************)
(* numpy arrays.  A pixel array is [dtype, data], data a sequence of rows; *)
(* shape[0] is the number of rows.                                         *)
(***************************************************************************)
itemsize(dtype) == IF dtype = "uint8" THEN 1 ELSE 2

\* ndarray.tobytes(): every element as itemsize little-endian bytes.
RECURSIVE tobytes(_, _)
tobytes(row, dtype) ==
    IF row = <<>> THEN <<>>
    ELSE LET v == Head(row)
             b == IF itemsize(dtype) = 1 THEN <<v % 256>>
                  ELSE <<v % 256, (v \div 256) % 256>>
         IN b \o tobytes(Tail(row), dtype)

\* np.frombuffer(blob, dtype=np.uint8): one element per byte.
frombuffer_reversed(blob) == [i \in 1..Len(blob) |-> blob[Len(blob) + 1 - i] % 256]
frombuffer(blob) == [i \in 1..Len(blob) |-> blob[i] % 256]

ScanRow(depth, pixel_data) == [depth |-> depth, pixel_data |-> pixel_data]

(***************************************************************************)
(* SQL on bags of rows.                                                    *)
(***************************************************************************)
\* The rows of table T that are in the set hit, as a table.
Where(T, hit) == [r \in hit \cap DOMAIN T |-> T[r]]

Count(T) == BagCardinality(T)

\* INSERT OR REPLACE INTO image_scans: rows in conflict on the primary key
\* depth are deleted, then the new row is inserted.
InsertPlainScan(T, row) == T (+) SetToBag({row})
InsertOrReplaceScan(T, row) ==
    Where(T, {r \in DOMAIN T : r.depth # row.depth}) (+) SetToBag({row})

\* INSERT OR REPLACE INTO metadata, primary key: key.
InsertPlainMeta(T, row) == T (+) SetToBag({row})
InsertOrReplaceMeta(T, row) ==
    Where(T, {r \in DOMAIN T : r.key # row.key}) (+) SetToBag({row})

\* ORDER BY depth: the rows of T as a list, ascending in depth.
RECURSIVE OrderByDepth(_)
OrderByDepth(T) ==
    IF DOMAIN T = {} THEN <<>>
    ELSE LET m == CHOOSE r \in DOMAIN T : \A q \in DOMAIN T : r.depth <= q.depth
         IN <<m>> \o OrderByDepth(T (-) SetToBag({m}))

(***************************************************************************)
(* Connections.  self is what a method of a handle works on: the committed *)
(* tables and the handle's _conn.  A method yields the new self and ret,   *)
(* what it returned or raised.                                             *)
(***************************************************************************)
NoConn == [open |-> FALSE, in_txn |-> FALSE,
           image_scans |-> EmptyBag, metadata |-> EmptyBag]
FreshConn == [NoConn EXCEPT !.open = TRUE]

Self(h) == [image_scans |-> image_scans, metadata |-> metadata, _conn |-> _conn[h]]

Return(self, v) == [self |-> self, ret |-> [kind |-> "ok", msg |-> "", value |-> v]]
Raise(self, kind, msg) == [self |-> self, ret |-> [kind |-> kind, msg |-> msg, value |-> None]]

\* The tables as the handle's connection reads them.
Scans(self) == IF self._conn.in_txn THEN self._conn.image_scans ELSE self.image_scans
Meta(self) == IF self._conn.in_txn THEN self._conn.metadata ELSE self.metadata

\* sqlite3 begins a transaction before a data-changing statement.
Begin(self) ==
    IF self._conn.in_txn THEN self
    ELSE [self EXCEPT !._conn = [open |-> TRUE, in_txn |-> TRUE,
                                 image_scans |-> self.image_scans,
                                 metadata |-> self.metadata]]

\* Connection.commit()
Commit(self) ==
    IF self._conn.in_txn
    THEN [image_scans |-> self._conn.image_scans,
          metadata |-> self._conn.metadata,
          _conn |-> FreshConn]
    ELSE self

\* ImageRepository.connect(): a new connection replaces the handle's; what
\* an old one had not committed is lost with it.
connect(self) == Return([self EXCEPT !._conn = FreshConn], None)

\* ImageRepository.close()
close(self) == Return([self EXCEPT !._conn = NoConn], None)

\* ImageRepository.conn: the connection, which must be present.
conn_unchecked(self) == Some(self._conn)
conn(self) == IF self._conn.open THEN Some(self._conn) ELSE None

RaiseNotConnected(self) ==
    Raise(self, "RuntimeError", "Repository not connected. Call connect() first.")

(***************************************************************************)
(* Write operations.                                                       *)
(***************************************************************************)
\* A storage fault of sqlite3 (disk full, I/O error): statement number `at`
\* of an executemany fails, 0 for none.  SQLite undoes the failed statement
\* and keeps the transaction open, or rolls the whole transaction back.
NoFault == [at |-> 0, rollback |-> FALSE]
Faults(n) == {NoFault}
             \cup {[at |-> k, rollback |-> FALSE] : k \in 1..n}
             \cup {[at |-> k, rollback |-> TRUE] : k \in 1..(IF n > 0 THEN 1 ELSE 0)}

\* Connection.executemany("INSERT OR REPLACE INTO image_scans ..."): the
\* statement runs once per row, in order.
RECURSIVE executemany(_, _)
executemany(T, rows) ==
    IF rows = <<>> THEN T
    ELSE executemany(InsertOrReplaceScan(T, Head(rows)), Tail(rows))

\* The two argument checks of bulk_insert_scans; None when both pass.
bulk_insert_checks_no_dtype(depths, pixel_array) ==
    IF Len(depths) # Len(pixel_array.data) THEN Some([kind |-> "ValueError", msg |-> "Shape mismatch"])
    ELSE None
bulk_insert_checks(depths, pixel_array) ==
    IF Len(depths) # Len(pixel_array.data) THEN Some([kind |-> "ValueError", msg |-> "Shape mismatch"])
    ELSE IF pixel_array.dtype # "uint8" THEN Some([kind |-> "TypeError", msg |-> "Expected uint8 pixel data"])
    ELSE None

\* What happens to the open transaction when executemany raises.
AfterFaultRollback(self, done) == [self EXCEPT !._conn = FreshConn]
AfterFault(self, done) == [self EXCEPT !._conn.image_scans = done]

\* ImageRepository.bulk_insert_scans(depths, pixel_array)
bulk_insert_scans(self, depths, pixel_array, fault) ==
    LET bad == bulk_insert_checks(depths, pixel_array)
        \* float(depths[i]) keeps the value; pixel_array[i].tobytes()
        rows == [i \in 1..Len(depths) |->
                    [depth |-> depths[i],
                     pixel_data |-> tobytes(pixel_array.data[i], pixel_array.dtype)]]
    IN IF bad # None THEN Raise(self, bad[1].kind, bad[1].msg)
       ELSE IF conn(self) = None THEN RaiseNotConnected(self)
       ELSE LET begun == Begin(self)
            IN IF fault.at > 0 /\ fault.at <= Len(rows)
               THEN LET done == executemany(begun._conn.image_scans,
                                            SubSeq(rows, 1, fault.at - 1))
                    IN Raise(IF fault.rollback THEN AfterFaultRollback(begun, done)
                             ELSE AfterFault(begun, done),
                             "OperationalError", "database or disk is full")
               ELSE LET done == executemany(begun._conn.image_scans, rows)
                    IN Return(Commit([begun EXCEPT !._conn.image_scans = done]), Len(rows))

\* ImageRepository.set_metadata(key, value)
set_metadata(self, key, value) ==
    IF conn(self) = None THEN RaiseNotConnected(self)
    ELSE LET begun == Begin(self)
             done == InsertOrReplaceMeta(begun._conn.metadata, [key |-> key, value |-> value])
         IN Return(Commit([begun EXCEPT !._conn.metadata = done]), None)

(***************************************************************************)
(* Read operations.                                                        *)
(***************************************************************************)
\* WHERE depth >= ? AND depth <= ?
InRangeExclusive(r, depth_min, depth_max) == r.depth > depth_min /\ r.depth < depth_max
InRange(r, depth_min, depth_max) == r.depth >= depth_min /\ r.depth <= depth_max

\* ImageRepository.query_depth_range(depth_min, depth_max)
query_depth_range(self, depth_min, depth_max) ==
    IF conn(self) = None THEN RaiseNotConnected(self)
    ELSE LET hit == {r \in DOMAIN Scans(self) : InRange(r, depth_min, depth_max)}
             fetchall == OrderByDepth(Where(Scans(self), hit))
         IN Return(self, [i \in 1..Len(fetchall) |->
                            ScanRow(fetchall[i].depth, frombuffer(fetchall[i].pixel_data))])

\* ImageRepository.get_metadata(key): fetchone() of the rows with that key.
get_metadata(self, key) ==
    IF conn(self) = None THEN RaiseNotConnected(self)
    ELSE LET hit == {r \in DOMAIN Meta(self) : r.key = key}
             rows == DOMAIN Where(Meta(self), hit)
         IN Return(self, IF rows = {} THEN None ELSE Some((CHOOSE r \in rows : TRUE).value))

\* ImageRepository.get_all_metadata(): dict(rows)
get_all_metadata(self) ==
    IF conn(self) = None THEN RaiseNotConnected(self)
    ELSE LET rows == DOMAIN Meta(self)
         IN Return(self, [k \in {r.key : r \in rows} |->
                            (CHOOSE r \in rows : r.key = k).value])

\* What get_depth_bounds does when MIN(depth) is NULL.
NoData(self) == Raise(self, "ValueError", "No scan data in database")

\* ImageRepository.get_depth_bounds(): SELECT MIN(depth), MAX(depth)
get_depth_bounds(self) ==
    IF conn(self) = None THEN RaiseNotConnected(self)
    ELSE LET ds == {r.depth : r \in DOMAIN Scans(self)}
         IN IF ds = {} THEN NoData(self)
            ELSE Return(self, <<CHOOSE d \in ds : \A e \in ds : d <= e,
                                CHOOSE d \in ds : \A e \in ds : d >= e>>)

\* ImageRepository.get_row_count(): SELECT COUNT(*)
get_row_count(self) ==
    IF conn(self) = None THEN RaiseNotConnected(self)
    ELSE Return(self, Count(Scans(self)))

\* ImageRepository.is_populated()
is_populated(self) ==
    LET n == get_row_count(self)
    IN IF n.ret.kind # "ok" THEN n ELSE Return(self, n.ret.value > 0)

\* api/dependencies.py get_repository()
get_repository ==
    IF _repository = None
    THEN [kind |-> "RuntimeError",
          msg |-> "Repository not initialized. App lifespan may not have started.",
          value |-> None]
    ELSE [kind |-> "ok", msg |-> "", value |-> _repository[1]]

(***************************************************************************)
(* The ingestion pipeline (ingestion/pipeline.py).  A DataFrame is         *)
(* [columns, rows], every row a sequence of cells in the order of the      *)
(* columns.  A cell is a float: NaN is None and the number v is Some(v).   *)
(* The numbers of the model are integers.  A stage function yields the set *)
(* of results [kind, msg, value] it can produce, value being Some(...) for *)
(* a return and None for a raise.                                          *)
(***************************************************************************)
NaN == None

\* The values a numpy reduction of pandas returns are numpy scalars.
int64(n) == [dtype |-> "int64", item |-> n]

Returns(v) == [kind |-> "ok", msg |-> "", value |-> Some(v)]
Raises(kind, msg) == [kind |-> kind, msg |-> msg, value |-> None]

\* The rows of a sequence at the increasing indices in keep.
RECURSIVE Take(_, _)
Take(rows, keep) ==
    IF keep = {} THEN <<>>
    ELSE LET i == CHOOSE k \in keep : \A j \in keep : k >= j
         IN Append(Take(rows, keep \ {i}), rows[i])

\* load_csv(csv_path): file is None when no file is at csv_path, and else
\* the table pd.read_csv reads from it.
load_csv(file) ==
    IF file = None THEN Raises("FileNotFoundError", "Data file not found")
    ELSE Returns(file[1])

\* df.sort_values(by): ascending in the column; the default sort is not
\* stable, rows of equal key come out in any order.
sort_values_unsorted(rows, col) == {rows}
sort_values(rows, col) ==
    LET n == Len(rows)
        orders == {q \in [1..n -> 1..n] :
                      /\ \A i \in 1..n, j \in 1..n : q[i] = q[j] => i = j
                      /\ \A i \in 1..n, j \in 1..n :
                             i < j => rows[q[i]][col][1] <= rows[q[j]][col][1]}
    IN {[i \in 1..n |-> rows[q[i]]] : q \in orders}

\* np.nanmean(row): the mean of the cells that are numbers, NaN without
\* any.  The rows of the model have at most one number beside a NaN, so the
\* division is exact.
nanmean_zero(row) == Some(0)
RECURSIVE SumCells(_)
SumCells(row) ==
    IF row = <<>> THEN 0
    ELSE (IF Head(row) = NaN THEN 0 ELSE Head(row)[1]) + SumCells(Tail(row))
nanmean(row) ==
    LET present == {i \in 1..Len(row) : row[i] # NaN}
    IN IF present = {} THEN NaN ELSE Some(SumCells(row) \div Cardinality(present))

\* ndarray.min() and ndarray.max() over all cells of a matrix with cells:
\* NaN if a cell is NaN.
CellsOf(pixels) == {pixels[i][j] : i \in 1..Len(pixels), j \in 1..(IF pixels = <<>> THEN 0 ELSE Len(pixels[1]))}
array_min(cells) ==
    IF NaN \in cells THEN NaN ELSE CHOOSE c \in cells : \A d \in cells : c[1] <= d[1]
array_max(cells) ==
    IF NaN \in cells THEN NaN ELSE CHOOSE c \in cells : \A d \in cells : c[1] >= d[1]

\* np.clip(x, 0, 255) of one cell; NaN stays NaN.
clip(c) == IF c = NaN THEN NaN ELSE Some(IF c[1] < 0 THEN 0 ELSE IF c[1] > 255 THEN 255 ELSE c[1])

\* np.median(a), in halves: twice the median of the sorted elements, NaN for
\* an empty array.
RECURSIVE SortInts(_)
SortInts(S) ==
    IF S = <<>> THEN <<>>
    ELSE LET i == CHOOSE k \in 1..Len(S) : \A j \in 1..Len(S) : S[k] <= S[j]
         IN <<S[i]>> \o SortInts(Take(S, (1..Len(S)) \ {i}))
median(diffs) ==
    LET sorted == SortInts(diffs)
        n == Len(diffs)
    IN IF n = 0 THEN NaN
       ELSE IF n % 2 = 1 THEN Some(2 * sorted[(n + 1) \div 2])
       ELSE Some(sorted[n \div 2] + sorted[n \div 2 + 1])

\* validate_and_clean from the removal of duplicates on, for one outcome of
\* the sort.
validate_sorted(columns, sorted, raw_rows, null_count) ==
    LET col == CHOOSE j \in 1..Len(columns) : columns[j] = "depth"
        \* duplicated(keep="first")
        first == {i \in 1..Len(sorted) :
                     \A j \in 1..(i - 1) : sorted[j][col] # sorted[i][col]}
        dup_count == Len(sorted) - Cardinality(first)
        kept == Take(sorted, first)
        n == Len(kept)
        depths == [i \in 1..n |-> kept[i][col][1]]
        pixel_cols == {j \in 1..Len(columns) : columns[j] # "depth"}
        raw == [i \in 1..n |-> Take(kept[i], pixel_cols)]
        \* NaN cells become the mean of their row
        filled == [i \in 1..n |->
                      [j \in 1..Len(raw[i]) |->
                          IF raw[i][j] = NaN THEN nanmean(raw[i]) ELSE raw[i][j]]]
        cells == CellsOf(filled)
        px_min == array_min(cells)
        px_max == array_max(cells)
        outside == px_min # NaN /\ px_max # NaN /\ (px_min[1] < 0 \/ px_max[1] > 255)
        pixels == IF outside
                  THEN [i \in 1..n |-> [j \in 1..Len(filled[i]) |-> clip(filled[i][j])]]
                  ELSE filled
        depth_diffs == [i \in 1..(n - 1) |-> depths[i + 1] - depths[i]]
        report == [raw_rows |-> raw_rows,
                   clean_rows |-> n,
                   null_rows_dropped |-> int64(null_count),
                   duplicate_depths_dropped |-> int64(dup_count),
                   depth_min |-> CHOOSE d \in Range(depths) : \A e \in Range(depths) : d <= e,
                   depth_max |-> CHOOSE d \in Range(depths) : \A e \in Range(depths) : d >= e,
                   depth_step |-> median(depth_diffs),
                   is_monotonic |-> \A i \in 1..(n - 1) : depth_diffs[i] > 0,
                   pixel_min |-> px_min,
                   pixel_max |-> px_max,
                   original_width |-> Cardinality(pixel_cols)]
    IN IF cells = {}
       THEN Raises("ValueError",
                   "zero-size array to reduction operation minimum which has no identity")
       ELSE Returns([depths |-> depths, pixels |-> pixels, report |-> report])

\* validate_and_clean(df)
validate_and_clean(df) ==
    LET raw_rows == Len(df.rows)
        not_null == {i \in 1..raw_rows : \E j \in 1..Len(df.rows[i]) : df.rows[i][j] # NaN}
        null_count == raw_rows - Cardinality(not_null)
        rows1 == Take(df.rows, not_null)
    IN IF "depth" \notin Range(df.columns) THEN {Raises("KeyError", "depth")}
       ELSE LET col == CHOOSE j \in 1..Len(df.columns) : df.columns[j] = "depth"
                rows2 == Take(rows1, {i \in 1..Len(rows1) : rows1[i][col] # NaN})
            IN {validate_sorted(df.columns, sorted, raw_rows, null_count) :
                    sorted \in sort_values(rows2, col)}

INTERPOLATION_METHODS == {"NEAREST", "BILINEAR", "BICUBIC", "AREA", "LANCZOS4"}

\* cv2.resize of one float32 row to target_width, the height being kept:
\* every row is resampled by itself.  The result is in halves (the cell h
\* is the number h/2).  A row of the target width is copied; a row of one
\* cell is repeated to the target width; a row of two cells becomes its
\* first cell under NEAREST and the mean of the two under the other
\* methods.  The model resamples no other shapes.
cv2_resize_keep_width(row, target_width, method) ==
    [j \in 1..Len(row) |-> IF row[j] = NaN THEN NaN ELSE Some(2 * row[j][1])]
cv2_resize(row, target_width, method) ==
    IF Len(row) = target_width
    THEN [j \in 1..Len(row) |-> IF row[j] = NaN THEN NaN ELSE Some(2 * row[j][1])]
    ELSE IF Len(row) = 1
    THEN [j \in 1..target_width |-> IF row[1] = NaN THEN NaN ELSE Some(2 * row[1][1])]
    ELSE IF method = "NEAREST"
    THEN <<IF row[1] = NaN THEN NaN ELSE Some(2 * row[1][1])>>
    ELSE <<IF row[1] = NaN \/ row[2] = NaN THEN NaN ELSE Some(row[1][1] + row[2][1])>>

\* What the cast of a NaN to uint8 can give: the cast is undefined, the
\* two ends of the range stand for its outcomes.
nan_as_uint8 == {0, 255}

\* np.clip(x, 0, 255).astype(np.uint8) of a cell in halves: the value is
\* truncated.  The LANCZOS4 weights are rounded float32 values, so a sum
\* that is a whole number when exact can come out just below it.
quantize(h, exact) ==
    IF h = NaN THEN nan_as_uint8
    ELSE LET v == IF h[1] < 0 THEN 0 ELSE IF h[1] > 510 THEN 510 ELSE h[1]
         IN {v \div 2} \cup (IF ~exact /\ v % 2 = 0 /\ v > 0 /\ h[1] <= 510
                             THEN {v \div 2 - 1} ELSE {})

\* The sequences that take their i-th element from the i-th set.
RECURSIVE Products(_)
Products(sets) ==
    IF sets = <<>> THEN {<<>>}
    ELSE {<<x>> \o rest : x \in Head(sets), rest \in Products(Tail(sets))}

\* repr(s) of a string and str(keys) of a list of strings.
repr(s) == "'" \o s \o "'"
RECURSIVE str_list_items(_)
str_list_items(keys) ==
    IF keys = <<>> THEN ""
    ELSE IF Len(keys) = 1 THEN repr(keys[1])
    ELSE repr(Head(keys)) \o ", " \o str_list_items(Tail(keys))
str_list(keys) == "[" \o str_list_items(keys) \o "]"

\* list(INTERPOLATION_METHODS.keys()): the keys in the order of the dict.
INTERPOLATION_METHODS_keys == <<"NEAREST", "BILINEAR", "BICUBIC", "AREA", "LANCZOS4">>

\* The message of the ValueError for a method that is no key.
unknown_method_message_bare(method) == "Unknown interpolation method: " \o repr(method)
unknown_method_message(method) ==
    "Unknown interpolation method: " \o repr(method) \o ". Available: "
        \o str_list(INTERPOLATION_METHODS_keys)

\* resize_image(pixels, target_width, method)
resize_image_any_method(pixels, target_width, method) ==
    LET row(i) == LET resized == cv2_resize(pixels[i], target_width, method)
                  IN Products([j \in 1..Len(resized) |-> quantize(resized[j], TRUE)])
    IN {Returns([dtype |-> "uint8", data |-> data]) :
           data \in Products([i \in 1..Len(pixels) |-> row(i)])}
resize_image(pixels, target_width, method) ==
    IF method \notin INTERPOLATION_METHODS
    THEN {Raises("ValueError", unknown_method_message(method))}
    ELSE LET exact == method # "LANCZOS4" \/ Len(pixels[1]) = target_width
             row(i) == LET resized == cv2_resize(pixels[i], target_width, method)
                       IN Products([j \in 1..Len(resized) |-> quantize(resized[j], exact)])
         IN {Returns([dtype |-> "uint8", data |-> data]) :
                data \in Products([i \in 1..Len(pixels) |-> row(i)])}

\* str(x) of a float that is a whole number, of a float in halves and of a
\* cell; f"{x:.0f}" of a cell.
str_float(x) == ToString(x) \o ".0"
str_halves(h) ==
    IF h = NaN THEN "nan"
    ELSE ToString(h[1] \div 2) \o (IF h[1] % 2 = 0 THEN ".0" ELSE ".5")
format_0f(c) == IF c = NaN THEN "nan" ELSE ToString(c[1])

\* A Python int or bool as a value json.dumps is given.
py(dtype, v) == [dtype |-> dtype, item |-> v]

\* json.dumps of a dict, given as its items in order: None when a value is
\* not of a type the encoder knows (TypeError), as numpy's int64 is not.
RECURSIVE json_items(_)
json_items(items) ==
    IF items = <<>> THEN ""
    ELSE LET v == Head(items)[2]
             text == IF v.dtype = "bool" THEN (IF v.item THEN "true" ELSE "false")
                     ELSE ToString(v.item)
         IN "\"" \o Head(items)[1] \o "\": " \o text
                \o (IF Len(items) > 1 THEN ", " ELSE "") \o json_items(Tail(items))
json_dumps(items) ==
    IF \E i \in 1..Len(items) : items[i][2].dtype \notin {"int", "bool"} THEN None
    ELSE Some("{" \o json_items(items) \o "}")

\* for key, value in metadata.items(): repo.set_metadata(key, value)
RECURSIVE set_all_metadata(_, _)
set_all_metadata(self, items) ==
    IF items = <<>> THEN Return(self, None)
    ELSE LET o == set_metadata(self, Head(items)[1], Head(items)[2])
         IN IF o.ret.kind # "ok" THEN o ELSE set_all_metadata(o.self, Tail(items))

\* store_to_database(repo, depths, pixels, report, settings)
store_metadata_first(self, depths, pixels, report, settings, fault) ==
    LET noted == set_all_metadata(self, << <<"source_file", settings.csv_filename>> >>)
    IN bulk_insert_scans(noted.self, depths, pixels, fault)
\* The metadata dict of store_to_database as its items in order, None when
\* json.dumps raises.
metadata_dict(row_count, pixels, report, settings) ==
    LET validation_summary ==
            json_dumps(<< <<"raw_rows", py("int", report.raw_rows)>>,
                          <<"clean_rows", py("int", report.clean_rows)>>,
                          <<"null_rows_dropped", report.null_rows_dropped>>,
                          <<"duplicate_depths_dropped", report.duplicate_depths_dropped>>,
                          <<"is_monotonic", py("bool", report.is_monotonic)>> >>)
        items == << <<"original_width", ToString(report.original_width)>>,
                    <<"resized_width", ToString(Len(pixels.data[1]))>>,
                    <<"depth_min", str_float(report.depth_min)>>,
                    <<"depth_max", str_float(report.depth_max)>>,
                    <<"depth_step", str_halves(report.depth_step)>>,
                    <<"row_count", ToString(row_count)>>,
                    <<"interpolation_method", settings.interpolation_method>>,
                    <<"source_file", settings.csv_filename>>,
                    <<"pixel_range_original",
                      "[" \o format_0f(report.pixel_min) \o ", "
                          \o format_0f(report.pixel_max) \o "]">>,
                    <<"validation_summary", validation_summary[1]>> >>
    IN IF validation_summary = None THEN None ELSE Some(items)
store_to_database(self, depths, pixels, report, settings, fault) ==
    LET written == bulk_insert_scans(self, depths, pixels, fault)
        dict == metadata_dict(written.ret.value, pixels, report, settings)
    IN IF written.ret.kind # "ok" THEN written
       ELSE IF dict = None
       THEN Raise(written.self, "TypeError", "Object of type int64 is not JSON serializable")
       ELSE set_all_metadata(written.self, dict[1])

(***************************************************************************)
(* api/routes.py and api/schemas.py.  A response is its status, its        *)
(* headers and its body; calls lists the repository methods the handler     *)
(* has called, in order.  A depth d is the float d.0.                       *)
(***************************************************************************)
ImageFormat == {"png", "jpeg"}
ColormapName == {"resistivity", "conductivity", "geological", "high_contrast", "gray", "viridis"}
\* ColormapRegistry._register_defaults(): the names has() answers True for.
_colormaps == {"resistivity", "conductivity", "geological", "high_contrast", "gray", "viridis"}

NoHeaders == [k \in {} |-> ""]
HTTPException(status_code, detail, calls) ==
    [status |-> status_code, detail |-> detail, headers |-> NoHeaders, body |-> None,
     calls |-> calls]
\* A query parameter that is no member of its Enum: FastAPI answers 422
\* and does not call the handler.
RequestValidationError == HTTPException(422, "Input should be a member of the Enum", <<>>)
\* An exception the handler does not catch.
InternalServerError(calls) == HTTPException(500, "Internal Server Error", calls)

\* np.array([row.pixel_data for row in rows]): the rows stacked in their
\* order; None where the rows differ in length, which numpy refuses or
\* makes a one-dimensional array of, without the shape[1] the handler reads.
np_array_reversed(rows) ==
    IF \E i \in 1..Len(rows) : Len(rows[i].pixel_data) # Len(rows[1].pixel_data) THEN None
    ELSE Some([i \in 1..Len(rows) |-> rows[Len(rows) + 1 - i].pixel_data])
np_array(rows) ==
    IF \E i \in 1..Len(rows) : Len(rows[i].pixel_data) # Len(rows[1].pixel_data) THEN None
    ELSE Some([i \in 1..Len(rows) |-> rows[i].pixel_data])

\* frame.tobytes(): the rows one after the other.
RECURSIVE frame_tobytes(_)
frame_tobytes(frame) ==
    IF frame = <<>> THEN <<>> ELSE tobytes(Head(frame), "uint8") \o frame_tobytes(Tail(frame))

\* registry.apply(colormap, frame, output_format): the encoded picture, by
\* what it is made of.
registry_apply(colormap, frame, format) ==
    [colormap |-> colormap, pixel_array |-> frame, output_format |-> format]

depth_order_unchecked(depth_min, depth_max) == FALSE
\* if depth_min >= depth_max
depth_order_invalid(depth_min, depth_max) == depth_min >= depth_max

\* get_image_frame(depth_min, depth_max, colormap, format, repo, registry)
get_image_frame(self, depth_min, depth_max, colormap, format) ==
    IF colormap \notin ColormapName \/ format \notin ImageFormat THEN RequestValidationError
    ELSE IF depth_order_invalid(depth_min, depth_max)
    THEN HTTPException(400, "depth_min must be less than depth_max", <<>>)
    ELSE IF colormap \notin _colormaps THEN HTTPException(400, "Unknown colormap", <<>>)
    ELSE LET bounds == get_depth_bounds(self)
             c1 == <<"get_depth_bounds">>
         IN IF bounds.ret.kind = "ValueError"
            THEN HTTPException(503, "Database is empty. Run ingestion first.", c1)
            ELSE IF bounds.ret.kind # "ok" THEN InternalServerError(c1)
            ELSE IF depth_min > bounds.ret.value[2] \/ depth_max < bounds.ret.value[1]
            THEN HTTPException(404, "No data in range", c1)
            ELSE LET q == query_depth_range(self, depth_min, depth_max)
                     c2 == <<"get_depth_bounds", "query_depth_range">>
                     rows == q.ret.value
                 IN IF q.ret.kind # "ok" THEN InternalServerError(c2)
                    ELSE IF rows = <<>> THEN HTTPException(404, "No scan rows found", c2)
                    ELSE IF np_array(rows) = None THEN InternalServerError(c2)
                    ELSE LET frame == np_array(rows)[1]
                         IN [status |-> 200, detail |-> "",
                             headers |-> [k \in {"X-Frame-Depth-Min", "X-Frame-Depth-Max",
                                                 "X-Frame-Rows", "X-Frame-Width", "X-Colormap"} |->
                                 CASE k = "X-Frame-Depth-Min" -> str_float(rows[1].depth)
                                   [] k = "X-Frame-Depth-Max" -> str_float(rows[Len(rows)].depth)
                                   [] k = "X-Frame-Rows" -> ToString(Len(rows))
                                   [] k = "X-Frame-Width" -> ToString(Len(frame[1]))
                                   [] k = "X-Colormap" -> colormap],
                             body |-> Some(registry_apply(colormap, frame, format)),
                             calls |-> c2]

\* get_raw_frame(depth_min, depth_max, repo)
get_raw_frame(self, depth_min, depth_max) ==
    IF depth_order_invalid(depth_min, depth_max)
    THEN HTTPException(400, "depth_min must be less than depth_max", <<>>)
    ELSE LET q == query_depth_range(self, depth_min, depth_max)
             c1 == <<"query_depth_range">>
             rows == q.ret.value
         IN IF q.ret.kind # "ok" THEN InternalServerError(c1)
            ELSE IF rows = <<>> THEN HTTPException(404, "No scan rows found", c1)
            ELSE IF np_array(rows) = None THEN InternalServerError(c1)
            ELSE LET frame == np_array(rows)[1]
                 IN [status |-> 200, detail |-> "",
                     headers |-> [k \in {"X-Frame-Depth-Min", "X-Frame-Depth-Max",
                                         "X-Frame-Rows", "X-Frame-Width", "X-Dtype"} |->
                         CASE k = "X-Frame-Depth-Min" -> str_float(rows[1].depth)
                           [] k = "X-Frame-Depth-Max" -> str_float(rows[Len(rows)].depth)
                           [] k = "X-Frame-Rows" -> ToString(Len(frame))
                           [] k = "X-Frame-Width" -> ToString(Len(frame[1]))
                           [] k = "X-Dtype" -> "uint8"],
                     body |-> Some(frame_tobytes(frame)),
                     calls |-> c1]

\* ImageQueryParams(depth_min=..., depth_max=..., colormap=..., format=...):
\* the field pattern of format, then check_depth_bounds.
ImageQueryParams(depth_min, depth_max, colormap, format) ==
    IF format \notin {"png", "jpeg"}
    THEN Raises("ValidationError", "String should match pattern '^(png|jpeg)$'")
    ELSE IF depth_order_invalid(depth_min, depth_max)
    THEN Raises("ValidationError", "Value error, depth_min must be less than depth_max")
    ELSE Returns([depth_min |-> depth_min, depth_max |-> depth_max,
                  colormap |-> colormap, format |-> format])

\* The processes that run store_to_database side by side, each on the handle
\* of its name.  pc is idle before the first call; bulk, build and metadata
\* while the call is about to write the rows, to build the metadata dict
\* and to write its items; done, failed or crashed when it is over, with
\* stopped_at the pc at which it raised or its process died.
Writers == {"ingest", "ingest2"}
NoWriter == [pc |-> "idle", in |-> None, row_count |-> 0, items |-> <<>>, stopped_at |-> ""]

\* No run_ingestion call has been made.  pc is the stage the run is at;
\* a run is over when it has raised (error) or returned (pc = "done").
Idle == [pc |-> "idle", settings |-> None, df |-> None, cleaned |-> None,
         resized |-> None, error |-> None, returned |-> None]

(***************************************************************************)
(* The state machine.  Callers (the tests, the ingestion run) work on the  *)
(* handle "repo"; the application's lifespan owns the handle "app", and a   *)
(* run of the ingestion the handle "ingest".                               *)
(***************************************************************************)
BulkDepths == SeqsUpTo(Depths, MaxRows)
\* uint8 arrays of every content, and one array of a wider type per row count.
WideRow == <<0, 300>>
PixelArrays ==
    {[dtype |-> "uint8", data |-> d] : d \in SeqsUpTo(PixelRows, MaxRows)}
    \cup {[dtype |-> "uint16", data |-> [i \in 1..n |-> WideRow]] : n \in 0..MaxRows}
Callers == {"repo"}

Init ==
    /\ image_scans = EmptyBag
    /\ metadata = EmptyBag
    /\ _conn = [h \in Handles |-> NoConn]
    /\ _repository = None
    /\ result = [op |-> "init", kind |-> "ok", msg |-> "", value |-> None]
    /\ run = Idle
    /\ writer = [w \in Writers |-> NoWriter]

\* Handle h ran method op with outcome o.
Call(h, op, o) ==
    /\ image_scans' = o.self.image_scans
    /\ metadata' = o.self.metadata
    /\ _conn' = [_conn EXCEPT ![h] = o.self._conn]
    /\ result' = [op |-> op, kind |-> o.ret.kind, msg |-> o.ret.msg, value |-> o.ret.value]

Connect(h) == Call(h, "connect", connect(Self(h))) /\ UNCHANGED <<_repository, run, writer>>

Close(h) == Call(h, "close", close(Self(h))) /\ UNCHANGED <<_repository, run, writer>>

BulkInsertScans(h) ==
    \E depths \in BulkDepths, pixel_array \in PixelArrays :
        \E fault \in IF bulk_insert_checks(depths, pixel_array) = None
                     THEN Faults(Len(depths)) ELSE {NoFault} :
            /\ Call(h, "bulk_insert_scans", bulk_insert_scans(Self(h), depths, pixel_array, fault))
            /\ UNCHANGED <<_repository, run, writer>>

SetMetadata(h) ==
    \E key \in MetaKeys, value \in MetaValues :
        Call(h, "set_metadata", set_metadata(Self(h), key, value)) /\ UNCHANGED <<_repository, run, writer>>

QueryDepthRange(h) ==
    \E depth_min \in QueryArgs, depth_max \in QueryArgs :
        /\ Call(h, "query_depth_range", query_depth_range(Self(h), depth_min, depth_max))
        /\ UNCHANGED <<_repository, run, writer>>

GetMetadata(h) ==
    \E key \in MetaKeys :
        Call(h, "get_metadata", get_metadata(Self(h), key)) /\ UNCHANGED <<_repository, run, writer>>

GetAllMetadata(h) == Call(h, "get_all_metadata", get_all_metadata(Self(h))) /\ UNCHANGED <<_repository, run, writer>>

GetDepthBounds(h) == Call(h, "get_depth_bounds", get_depth_bounds(Self(h))) /\ UNCHANGED <<_repository, run, writer>>

GetRowCount(h) == Call(h, "get_row_count", get_row_count(Self(h))) /\ UNCHANGED <<_repository, run, writer>>

IsPopulated(h) == Call(h, "is_populated", is_populated(Self(h))) /\ UNCHANGED <<_repository, run, writer>>

\* lifespan(), up to its yield: the application's handle is made, connected
\* and asked whether it is populated.
LifespanStartup ==
    /\ _repository = None
    /\ _repository' = Some("app")
    /\ UNCHANGED <<run, writer>>
    /\ LET connected == connect([Self("app") EXCEPT !._conn = NoConn])
       IN Call("app", "lifespan_startup", Return(is_populated(connected.self).self, None))

\* lifespan(), after its yield.
LifespanShutdown ==
    /\ _repository # None
    /\ _repository' = None
    /\ UNCHANGED <<run, writer>>
    /\ Call(_repository[1], "lifespan_shutdown", close(Self(_repository[1])))

GetRepository ==
    /\ result' = [op |-> "get_repository", kind |-> get_repository.kind,
                  msg |-> get_repository.msg, value |-> get_repository.value]
    /\ UNCHANGED <<image_scans, metadata, _conn, _repository, run, writer>>

Next ==
    \/ \E h \in Callers :
        \/ Connect(h)
        \/ Close(h)
        \/ BulkInsertScans(h)
        \/ SetMetadata(h)
        \/ QueryDepthRange(h)
        \/ GetMetadata(h)
        \/ GetAllMetadata(h)
        \/ GetDepthBounds(h)
        \/ GetRowCount(h)
        \/ IsPopulated(h)
    \/ LifespanStartup
    \/ LifespanShutdown
    \/ GetRepository

Spec == Init /\ [][Next]_vars

(***************************************************************************)
(* Runs of the ingestion: run_ingestion(settings), stage by stage, one run *)
(* after the other on the same database file.                              *)
(***************************************************************************)
\* The rows of the source file: a depth or none, and two pixel columns with
\* values in range, out of range and missing.
CsvPixels == {<<Some(0), Some(255)>>, <<Some(255), Some(0)>>,
              <<Some(300), NaN>>, <<NaN, NaN>>}
CsvRows == {<<d>> \o p : d \in {NaN} \cup {Some(x) : x \in Depths}, p \in CsvPixels}
\* The tables pd.read_csv can give: up to MaxRows rows under the columns
\* depth, col1, col2, and one table that has no depth column.
CsvTables ==
    {[columns |-> <<"depth", "col1", "col2">>, rows |-> r] : r \in SeqsUpTo(CsvRows, MaxRows)}
    \cup {[columns |-> <<"col1", "col2">>, rows |-> << <<Some(0), Some(255)>> >>]}
TargetWidths == {1, 2}
IngestSettings ==
    {[csv_filename |-> "Challenge2.csv", target_width |-> w, interpolation_method |-> m] :
        w \in TargetWidths, m \in INTERPOLATION_METHODS \cup {"INVALID"}}

Running == run.pc \in {"load", "validate", "resize", "store"} /\ run.error = None

Failed(r) == [run EXCEPT !.error = Some([kind |-> r.kind, msg |-> r.msg])]

\* run_ingestion(settings) is called.
RunIngestion ==
    /\ ~Running
    /\ \E settings \in IngestSettings :
           run' = [Idle EXCEPT !.pc = "load", !.settings = Some(settings)]
    /\ UNCHANGED <<image_scans, metadata, _conn, _repository, result, writer>>

\* Step 1: df = load_csv(settings.csv_path); the file is missing or holds
\* a table.
Load ==
    /\ Running /\ run.pc = "load"
    /\ \E file \in {None} \cup {Some(t) : t \in CsvTables} :
           LET r == load_csv(file)
           IN run' = IF r.kind = "ok" THEN [run EXCEPT !.pc = "validate", !.df = r.value]
                     ELSE Failed(r)
    /\ UNCHANGED <<image_scans, metadata, _conn, _repository, result, writer>>

\* Step 2: depths, pixels, report = validate_and_clean(df)
Validate ==
    /\ Running /\ run.pc = "validate"
    /\ \E r \in validate_and_clean(run.df[1]) :
           run' = IF r.kind = "ok"
                  THEN [run EXCEPT !.pc = "resize", !.df = None, !.cleaned = r.value]
                  ELSE Failed(r)
    /\ UNCHANGED <<image_scans, metadata, _conn, _repository, result, writer>>

\* Step 3: resized = resize_image(pixels, target_width, method)
Resize ==
    /\ Running /\ run.pc = "resize"
    /\ \E r \in resize_image(run.cleaned[1].pixels, run.settings[1].target_width,
                             run.settings[1].interpolation_method) :
           run' = IF r.kind = "ok" THEN [run EXCEPT !.pc = "store", !.resized = r.value]
                  ELSE Failed(r)
    /\ UNCHANGED <<image_scans, metadata, _conn, _repository, result, writer>>

\* Step 4: with ImageRepository(settings.db_path) as repo:
\* store_to_database(repo, depths, resized, report, settings).  The handle
\* is new; __enter__ connects it and __exit__ closes it, however the block
\* ends.  Then the report is returned.
Store ==
    /\ Running /\ run.pc = "store"
    /\ \E fault \in Faults(Len(run.cleaned[1].depths)) :
           LET repo == connect([Self("ingest") EXCEPT !._conn = NoConn]).self
               stored == store_to_database(repo, run.cleaned[1].depths, run.resized[1],
                                           run.cleaned[1].report, run.settings[1], fault)
               closed == close(stored.self).self
           IN /\ image_scans' = closed.image_scans
              /\ metadata' = closed.metadata
              /\ _conn' = [_conn EXCEPT !["ingest"] = closed._conn]
              /\ run' = IF stored.ret.kind = "ok"
                        THEN [run EXCEPT !.pc = "done",
                                         !.returned = Some(run.cleaned[1].report)]
                        ELSE Failed(stored.ret)
    /\ UNCHANGED <<_repository, result, writer>>

NextIngestion ==
    \/ RunIngestion
    \/ Load
    \/ Validate
    \/ Resize
    \/ Store

SpecIngestion == Init /\ [][NextIngestion]_vars

(***************************************************************************)
(* Calls of resize_image(pixels, target_width, method) by themselves: the  *)
(* run starts at the resize stage with a matrix of one or two columns,     *)
(* with cells below, in and above [0, 255] and missing cells.              *)
(***************************************************************************)
ResizeCells == {Some(0 - 10), Some(0), Some(255), Some(300), NaN}
ResizeWidths == {1, 2}
ResizeInputs ==
    {p \in SeqsUpTo(SeqsUpTo(ResizeCells, 2), MaxRows) :
        /\ Len(p) >= 1
        /\ \E w \in ResizeWidths : \A i \in 1..Len(p) : Len(p[i]) = w}
InitResize ==
    /\ image_scans = EmptyBag
    /\ metadata = EmptyBag
    /\ _conn = [h \in Handles |-> NoConn]
    /\ _repository = None
    /\ result = [op |-> "init", kind |-> "ok", msg |-> "", value |-> None]
    /\ \E pixels \in ResizeInputs, settings \in IngestSettings :
           run = [Idle EXCEPT !.pc = "resize", !.settings = Some(settings),
                              !.cleaned = Some([pixels |-> pixels])]
    /\ writer = [w \in Writers |-> NoWriter]

SpecResize == InitResize /\ [][Resize]_vars

(***************************************************************************)
(* The service: the application between startup and shutdown answers       *)
(* requests on its handle while runs of the ingestion store their data on  *)
(* handles of their own.  A run is taken at its step 4, with depths as      *)
(* validate_and_clean and a matrix as resize_image return them.            *)
(***************************************************************************)
StoredPixelRows == {<<0, 255>>, <<255, 0>>, <<7>>}
StoreDepths == {d \in BulkDepths : Len(d) >= 1 /\ \A i \in 1..(Len(d) - 1) : d[i] < d[i + 1]}
\* The report validate_and_clean makes for a table of these depths that has
\* nothing to drop, two pixel columns and the cells 0 and 255.
ReportFor(depths) ==
    [raw_rows |-> Len(depths),
     clean_rows |-> Len(depths),
     null_rows_dropped |-> int64(0),
     duplicate_depths_dropped |-> int64(0),
     depth_min |-> depths[1],
     depth_max |-> depths[Len(depths)],
     depth_step |-> median([i \in 1..(Len(depths) - 1) |-> depths[i + 1] - depths[i]]),
     is_monotonic |-> TRUE,
     pixel_min |-> Some(0),
     pixel_max |-> Some(255),
     original_width |-> 2]
StoreData ==
    {x \in StoreDepths \X SeqsUpTo(StoredPixelRows, MaxRows) :
        Len(x[2]) = Len(x[1]) /\ \A i \in 1..Len(x[2]) : Len(x[2][i]) = Len(x[2][1])}
StoreInputs ==
    {[depths |-> x[1], pixels |-> [dtype |-> "uint8", data |-> x[2]],
      report |-> ReportFor(x[1]),
      settings |-> [csv_filename |-> "Challenge2.csv", target_width |-> Len(x[2][1]),
                    interpolation_method |-> "AREA"]] : x \in StoreData}

\* Step 4 of a run: with ImageRepository(settings.db_path) as repo:
\* store_to_database(repo, depths, resized, report, settings)
StoreToDatabase ==
    /\ \E in \in StoreInputs :
         \E fault \in Faults(Len(in.depths)) :
           LET repo == connect([Self("ingest") EXCEPT !._conn = NoConn]).self
               stored == store_to_database(repo, in.depths, in.pixels, in.report,
                                           in.settings, fault)
               closed == close(stored.self).self
           IN /\ image_scans' = closed.image_scans
              /\ metadata' = closed.metadata
              /\ _conn' = [_conn EXCEPT !["ingest"] = closed._conn]
              /\ result' = [op |-> "store_to_database", kind |-> stored.ret.kind,
                            msg |-> stored.ret.msg, value |-> None]
    /\ UNCHANGED <<_repository, run, writer>>

RequestColormaps == {"gray", "nonexistent"}
Respond(op, response) ==
    /\ result' = [op |-> op, kind |-> "ok", msg |-> "", value |-> response]
    /\ UNCHANGED <<image_scans, metadata, _conn, _repository, run, writer>>

\* GET /api/v1/image, while the application is up.
GetImageFrame ==
    /\ _repository # None
    /\ \E depth_min \in QueryArgs, depth_max \in QueryArgs,
          colormap \in RequestColormaps, format \in ImageFormat :
           Respond("get_image_frame",
                   get_image_frame(Self(_repository[1]), depth_min, depth_max, colormap, format))

\* GET /api/v1/image/raw, while the application is up.
GetRawFrame ==
    /\ _repository # None
    /\ \E depth_min \in QueryArgs, depth_max \in QueryArgs :
           Respond("get_raw_frame", get_raw_frame(Self(_repository[1]), depth_min, depth_max))

\* ImageQueryParams(...) is constructed.
NewImageQueryParams ==
    \E depth_min \in QueryArgs, depth_max \in QueryArgs,
       colormap \in RequestColormaps, format \in ImageFormat \cup {"gif"} :
        LET r == ImageQueryParams(depth_min, depth_max, colormap, format)
        IN /\ result' = [op |-> "ImageQueryParams", kind |-> r.kind, msg |-> r.msg,
                         value |-> r.value]
           /\ UNCHANGED <<image_scans, metadata, _conn, _repository, run, writer>>

NextApi ==
    \/ LifespanStartup
    \/ LifespanShutdown
    \/ StoreToDatabase
    \/ GetImageFrame
    \/ GetRawFrame
    \/ NewImageQueryParams

SpecApi == Init /\ [][NextApi]_vars

(***************************************************************************)
(* store_to_database step by step.  A process enters                        *)
(* `with ImageRepository(settings.db_path) as repo`, writes the rows        *)
(* (one transaction), builds the metadata dict, writes its items (one       *)
(* transaction each) and leaves the block, which closes the handle; an      *)
(* exception leaves the block at once.  A process can die at any point: its *)
(* connection is gone and what it had not committed with it.               *)
(***************************************************************************)
\* The report with its two counts as Python ints, as a caller that builds
\* the report by hand passes it.
PlainReport(report) ==
    [report EXCEPT !.null_rows_dropped = py("int", report.null_rows_dropped.item),
                   !.duplicate_depths_dropped = py("int", report.duplicate_depths_dropped.item)]

\* The data of the runs: the depths 1, 2 or both, rows of one or two pixels,
\* and the report with the counts as validate_and_clean makes them (int64)
\* or as a caller that builds the report by hand passes them (int).
WriterData ==
    {x \in StoreData : /\ x[2][1] \in {<<0, 255>>, <<7>>}
                       /\ Len(x[2]) = 2 => x[2][2] = <<255, 0>>}
WriterInputs ==
    {in \in StoreInputs : <<in.depths, in.pixels.data>> \in WriterData}
    \cup {[in EXCEPT !.report = PlainReport(in.report)] :
             in \in {x \in StoreInputs : <<x.depths, x.pixels.data>> \in WriterData}}

\* The pc after the bulk write returned or raised.
after_bulk_always(kind) == "build"
after_bulk(kind) == IF kind = "ok" THEN "build" ELSE "failed"

\* Process w did a step with outcome o on its handle and is at pc now.
WriterStep(w, op, o, closes) ==
    LET self == IF closes THEN close(o.self).self ELSE o.self
    IN /\ image_scans' = self.image_scans
       /\ metadata' = self.metadata
       /\ _conn' = [_conn EXCEPT ![w] = self._conn]
       /\ result' = [op |-> op, kind |-> o.ret.kind, msg |-> o.ret.msg, value |-> None]
       /\ UNCHANGED <<_repository, run>>

\* __enter__: the handle is made and connected.
Enter(w) ==
    /\ writer[w].pc \in {"idle", "done", "failed", "crashed"}
    /\ \E in \in WriterInputs :
           writer' = [writer EXCEPT ![w] = [NoWriter EXCEPT !.pc = "bulk", !.in = Some(in)]]
    /\ WriterStep(w, "connect", connect([Self(w) EXCEPT !._conn = NoConn]), FALSE)

\* row_count = repo.bulk_insert_scans(depths, pixels)
WriteRows(w) ==
    /\ writer[w].pc = "bulk"
    /\ LET in == writer[w].in[1]
       IN \E fault \in Faults(Len(in.depths)) :
              LET o == bulk_insert_scans(Self(w), in.depths, in.pixels, fault)
                  pc == after_bulk(o.ret.kind)
              IN /\ writer' = [writer EXCEPT ![w].pc = pc,
                                             ![w].row_count = IF o.ret.kind = "ok"
                                                              THEN o.ret.value ELSE 0,
                                             ![w].stopped_at = IF pc = "failed"
                                                               THEN "bulk" ELSE ""]
                 /\ WriterStep(w, "bulk_insert_scans", o, pc = "failed")

\* metadata = {...}
BuildMetadata(w) ==
    /\ writer[w].pc = "build"
    /\ LET in == writer[w].in[1]
           dict == metadata_dict(writer[w].row_count, in.pixels, in.report, in.settings)
       IN IF dict = None
          THEN /\ writer' = [writer EXCEPT ![w].pc = "failed", ![w].stopped_at = "build"]
               /\ WriterStep(w, "store_to_database",
                             Raise(Self(w), "TypeError",
                                   "Object of type int64 is not JSON serializable"), TRUE)
          ELSE /\ writer' = [writer EXCEPT ![w].pc = "metadata", ![w].items = dict[1]]
               /\ WriterStep(w, "store_to_database", Return(Self(w), None), FALSE)

\* repo.set_metadata(key, value) for the next item of the dict
SetNextMetadata(w) ==
    /\ writer[w].pc = "metadata"
    /\ writer[w].items # <<>>
    /\ LET o == set_metadata(Self(w), Head(writer[w].items)[1], Head(writer[w].items)[2])
       IN /\ writer' = IF o.ret.kind = "ok"
                       THEN [writer EXCEPT ![w].items = Tail(writer[w].items)]
                       ELSE [writer EXCEPT ![w].pc = "failed", ![w].stopped_at = "metadata"]
          /\ WriterStep(w, "set_metadata", o, o.ret.kind # "ok")

\* __exit__ after the last item: the handle is closed.
Exit(w) ==
    /\ writer[w].pc = "metadata"
    /\ writer[w].items = <<>>
    /\ writer' = [writer EXCEPT ![w].pc = "done"]
    /\ WriterStep(w, "close", close(Self(w)), FALSE)

\* The process dies.
Crash(w) ==
    /\ writer[w].pc \in {"bulk", "build", "metadata"}
    /\ writer' = [writer EXCEPT ![w].pc = "crashed", ![w].stopped_at = writer[w].pc]
    /\ _conn' = [_conn EXCEPT ![w] = NoConn]
    /\ result' = [op |-> "crash", kind |-> "ok", msg |-> "", value |-> None]
    /\ UNCHANGED <<image_scans, metadata, _repository, run>>

WriterNext(w) ==
    \/ Enter(w)
    \/ WriteRows(w)
    \/ BuildMetadata(w)
    \/ SetNextMetadata(w)
    \/ Exit(w)
    \/ Crash(w)

\* Runs one after the other, each of which can die.
SpecCrash == Init /\ [][WriterNext("ingest")]_vars

\* Two processes side by side, one run each.
Start(w) ==
    /\ writer[w].pc = "idle"
    /\ Enter(w)

ConcurrentNext(w) ==
    \/ Start(w)
    \/ WriteRows(w)
    \/ BuildMetadata(w)
    \/ SetNextMetadata(w)
    \/ Exit(w)
    \/ Crash(w)

SpecConcurrent == Init /\ [][\E w \in Writers : ConcurrentNext(w)]_vars

(***************************************************************************)
(* Properties of the depth store.  A property of a method is stated at     *)
(* every reachable state, for every argument the model draws: the method   *)
(* is applied to the state and its outcome examined.                       *)
(***************************************************************************)
\* Bulk writes whose arguments pass both checks.
ValidBulk ==
    {in \in BulkDepths \X PixelArrays :
        Len(in[1]) = Len(in[2].data) /\ in[2].dtype = "uint8"}

\* What the handle reads of a store state.
StoredRows(self) == DOMAIN Scans(self)
StoredDepths(self) == {r.depth : r \in StoredRows(self)}
RowCount(self) == get_row_count(self).ret.value

\* C1: on a connected handle, in every reachable store state and for every
\* pair (a, b), query_depth_range(a, b) succeeds and returns exactly the
\* stored rows with a <= depth <= b, none missing and none extra, in strictly
\* ascending depth; it returns the empty list when no stored depth lies in
\* [a, b], a > b included.
C1_QueryExactRangeAscending ==
    \A h \in Callers : _conn[h].open =>
        \A a \in QueryArgs, b \in QueryArgs :
            LET o == query_depth_range(Self(h), a, b)
                rows == o.ret.value
                wanted == {r \in StoredRows(Self(h)) : a <= r.depth /\ r.depth <= b}
            IN /\ o.ret.kind = "ok"
               /\ o.self = Self(h)
               /\ \A i \in 1..Len(rows) : \E r \in wanted :
                      rows[i].depth = r.depth /\ rows[i].pixel_data = r.pixel_data
               /\ \A r \in wanted : \E i \in 1..Len(rows) :
                      rows[i].depth = r.depth /\ rows[i].pixel_data = r.pixel_data
               /\ \A i \in 1..Len(rows), j \in 1..Len(rows) :
                      i < j => rows[i].depth < rows[j].depth
               /\ (wanted = {} => rows = <<>>)

\* C1 witness: a query returned two rows of a populated store.
C1_Witness ==
    /\ result.op = "query_depth_range"
    /\ result.kind = "ok"
    /\ Len(result.value) = 2
    /\ result.value[1].depth < result.value[2].depth

\* No two rows of table T have the same depth.
DepthUnique(T) ==
    /\ \A r \in DOMAIN T : T[r] = 1
    /\ \A r \in DOMAIN T, q \in DOMAIN T : r.depth = q.depth => r = q

\* C2: depth is a unique key in every reachable store state, committed or
\* inside an open transaction, and a successful bulk write leaves every depth
\* it wrote holding the content of the last pair written for that depth, the
\* row count being the number of distinct depths stored or written: writing
\* depths that are all stored already does not increase get_row_count().
C2_DepthUniqueLastWriteWins ==
    /\ DepthUnique(image_scans)
    /\ \A h \in Callers :
        /\ DepthUnique(Scans(Self(h)))
        /\ _conn[h].open =>
            \A in \in ValidBulk :
                LET depths == in[1]
                    data == in[2].data
                    o == bulk_insert_scans(Self(h), depths, in[2], NoFault)
                    last(d) == CHOOSE i \in 1..Len(depths) :
                                   depths[i] = d /\ \A j \in (i + 1)..Len(depths) : depths[j] # d
                IN /\ o.ret.kind = "ok"
                   /\ o.ret.value = Len(depths)
                   /\ \A d \in Range(depths) :
                          query_depth_range(o.self, d, d).ret.value
                              = <<ScanRow(d, data[last(d)])>>
                   /\ RowCount(o.self) = Cardinality(StoredDepths(Self(h)) \cup Range(depths))
                   /\ (Range(depths) \subseteq StoredDepths(Self(h))
                          => RowCount(o.self) = RowCount(Self(h)))

\* C2 witness: a bulk write of two pairs left a single row, the two pairs
\* having had the same depth.
C2_Witness ==
    /\ result.op = "bulk_insert_scans"
    /\ result.kind = "ok"
    /\ result.value = 2
    /\ Count(image_scans) = 1

\* C3: from every reachable store state, a successful bulk write repeated at
\* once with the same depths and pixel rows succeeds again and leaves
\* get_row_count() and the result of every query_depth_range call what they
\* were after the first write.
C3_BulkInsertIdempotent ==
    \A h \in Callers : _conn[h].open =>
        \A in \in ValidBulk :
            LET first == bulk_insert_scans(Self(h), in[1], in[2], NoFault)
                second == bulk_insert_scans(first.self, in[1], in[2], NoFault)
            IN /\ first.ret.kind = "ok"
               /\ second.ret = first.ret
               /\ get_row_count(second.self).ret = get_row_count(first.self).ret
               /\ \A a \in QueryArgs, b \in QueryArgs :
                      query_depth_range(second.self, a, b).ret
                          = query_depth_range(first.self, a, b).ret

\* C3 witness: the state after a successful write of two rows at two depths,
\* in which writing two rows again changes nothing.
C3_Witness ==
    /\ result.op = "bulk_insert_scans"
    /\ result.kind = "ok"
    /\ result.value = 2
    /\ Count(image_scans) = 2
    /\ \E in \in ValidBulk :
           /\ Len(in[1]) = 2
           /\ bulk_insert_scans(Self("repo"), in[1], in[2], NoFault).self = Self("repo")

\* C4: a bulk write whose number of depths differs from its number of pixel
\* rows fails with the shape-mismatch error, one whose pixels are not uint8
\* with the type error, on any handle; the rows, the row count, the metadata
\* and the handle's connection are what they were before the call.
C4_RejectsBeforeMutating ==
    \A h \in Callers :
        \A depths \in BulkDepths, pixel_array \in PixelArrays :
            LET mismatch == Len(depths) # Len(pixel_array.data)
                o == bulk_insert_scans(Self(h), depths, pixel_array, NoFault)
            IN (mismatch \/ pixel_array.dtype # "uint8") =>
                   /\ o.ret.kind = (IF mismatch THEN "ValueError" ELSE "TypeError")
                   /\ o.ret.msg = (IF mismatch THEN "Shape mismatch"
                                   ELSE "Expected uint8 pixel data")
                   /\ o.self = Self(h)

\* C4 witness: a write of non-uint8 pixels was rejected on a store that
\* holds rows and metadata.
C4_Witness ==
    /\ result.op = "bulk_insert_scans"
    /\ result.kind = "TypeError"
    /\ Count(image_scans) > 0
    /\ Count(metadata) > 0

\* The index of the last pair of a bulk write that has depth d.
LastAt(depths, d) ==
    CHOOSE i \in 1..Len(depths) : depths[i] = d /\ \A j \in (i + 1)..Len(depths) : depths[j] # d

\* Table T holds every pair of the write (depths, data).
AllStored(T, depths, data) ==
    \A d \in Range(depths) :
        [depth |-> d, pixel_data |-> data[LastAt(depths, d)]] \in DOMAIN T

\* At the depths of the write, table T holds what table T0 held.
NoneStored(T, T0, depths) ==
    {r \in DOMAIN T : r.depth \in Range(depths)}
        = {r \in DOMAIN T0 : r.depth \in Range(depths)}

\* C5: a bulk write is all-or-nothing.  From a handle with no transaction
\* open, after the call, after a later set_metadata on the same handle and
\* after a later bulk write of other depths on the same handle, the
\* committed table holds every pair of the call or, at the call's depths,
\* what it held before the call; a call that returns stored every pair.
C5_BulkAllOrNothing ==
    \A h \in Callers : (_conn[h].open /\ ~_conn[h].in_txn) =>
        \A in \in ValidBulk : \A fault \in Faults(Len(in[1])) :
            LET depths == in[1]
                data == in[2].data
                o == bulk_insert_scans(Self(h), depths, in[2], fault)
                AllOrNone(T) == \/ AllStored(T, depths, data)
                                \/ NoneStored(T, image_scans, depths)
            IN /\ (o.ret.kind = "ok" => AllStored(o.self.image_scans, depths, data))
               /\ AllOrNone(o.self.image_scans)
               /\ \A key \in MetaKeys, value \in MetaValues :
                      AllOrNone(set_metadata(o.self, key, value).self.image_scans)
               /\ \A later \in ValidBulk :
                      Range(later[1]) \cap Range(depths) = {} =>
                          AllOrNone(bulk_insert_scans(o.self, later[1], later[2],
                                                      NoFault).self.image_scans)

\* C6: on a store with rows get_depth_bounds() returns the smallest and the
\* largest stored depth; on a store without rows it fails, returning no
\* value, with an error whose kind differs from the kind of the error a
\* depth/row count mismatch raises.
C6_BoundsOrDistinctNoData ==
    \A h \in Callers : _conn[h].open =>
        LET o == get_depth_bounds(Self(h))
            ds == StoredDepths(Self(h))
        IN /\ ds # {} =>
                  /\ o.ret.kind = "ok"
                  /\ o.ret.value[1] \in ds /\ o.ret.value[2] \in ds
                  /\ \A d \in ds : o.ret.value[1] <= d /\ d <= o.ret.value[2]
           /\ ds = {} =>
                  /\ o.ret.kind # "ok"
                  /\ o.ret.value = None
                  /\ \A depths \in BulkDepths, pixel_array \in PixelArrays :
                         Len(depths) # Len(pixel_array.data) =>
                             bulk_insert_scans(Self(h), depths, pixel_array, NoFault).ret.kind
                                 # o.ret.kind

\* The call on self failed with the error of a handle that is not connected,
\* returned nothing and changed nothing.
FailsNotConnected(self, o) ==
    /\ o.ret.kind = "RuntimeError"
    /\ o.ret.msg = "Repository not connected. Call connect() first."
    /\ o.ret.value = None
    /\ o.self = self

\* Every read operation and set_metadata, on self and for every argument,
\* fails with the not-connected error.
ReadsAndSetMetadataFailNotConnected(self) ==
    /\ \A a \in QueryArgs, b \in QueryArgs :
           FailsNotConnected(self, query_depth_range(self, a, b))
    /\ \A key \in MetaKeys : FailsNotConnected(self, get_metadata(self, key))
    /\ FailsNotConnected(self, get_all_metadata(self))
    /\ FailsNotConnected(self, get_depth_bounds(self))
    /\ FailsNotConnected(self, get_row_count(self))
    /\ FailsNotConnected(self, is_populated(self))
    /\ \A key \in MetaKeys, value \in MetaValues :
           FailsNotConnected(self, set_metadata(self, key, value))

\* On a connected handle the operations succeed, get_depth_bounds on a store
\* with rows and bulk_insert_scans on arguments that pass its checks.
ConnectedSucceeds(self) ==
    /\ \A a \in QueryArgs, b \in QueryArgs : query_depth_range(self, a, b).ret.kind = "ok"
    /\ \A key \in MetaKeys : get_metadata(self, key).ret.kind = "ok"
    /\ get_all_metadata(self).ret.kind = "ok"
    /\ get_row_count(self).ret.kind = "ok"
    /\ is_populated(self).ret.kind = "ok"
    /\ get_depth_bounds(self).ret.kind = (IF StoredRows(self) = {} THEN "ValueError" ELSE "ok")
    /\ \A key \in MetaKeys, value \in MetaValues : set_metadata(self, key, value).ret.kind = "ok"
    /\ \A in \in ValidBulk : bulk_insert_scans(self, in[1], in[2], NoFault).ret.kind = "ok"

\* get_repository() fails with the not-initialized error while the
\* application has no handle, and otherwise returns a connected handle.
GetRepositoryInitializedOnly ==
    IF _repository = None
    THEN /\ get_repository.kind = "RuntimeError"
         /\ get_repository.msg = "Repository not initialized. App lifespan may not have started."
         /\ get_repository.value = None
    ELSE /\ get_repository.kind = "ok"
         /\ _conn[get_repository.value].open

\* C7, as stated: on a handle that is not connected every read and write
\* operation, bulk_insert_scans with any arguments included, fails with the
\* not-connected error; on a connected handle the operations succeed; and
\* get_repository() fails with the not-initialized error outside the
\* application's lifespan.
C7_EveryOperationFailsNotConnected ==
    /\ GetRepositoryInitializedOnly
    /\ \A h \in Handles :
        IF _conn[h].open THEN ConnectedSucceeds(Self(h))
        ELSE /\ ReadsAndSetMetadataFailNotConnected(Self(h))
             /\ \A depths \in BulkDepths, pixel_array \in PixelArrays :
                    FailsNotConnected(Self(h),
                        bulk_insert_scans(Self(h), depths, pixel_array, NoFault))

\* C7, amended: on a handle that is not connected every operation fails,
\* returns no value and changes nothing; the error is the not-connected
\* error, except that bulk_insert_scans checks its arguments first and raises
\* the shape-mismatch or the type error for arguments that fail a check.  On
\* a connected handle the operations succeed, and get_repository() fails with
\* the not-initialized error outside the application's lifespan.
C7_FailsNotConnectedAfterArgumentChecks ==
    /\ GetRepositoryInitializedOnly
    /\ \A h \in Handles :
        IF _conn[h].open THEN ConnectedSucceeds(Self(h))
        ELSE /\ ReadsAndSetMetadataFailNotConnected(Self(h))
             /\ \A depths \in BulkDepths, pixel_array \in PixelArrays :
                    LET o == bulk_insert_scans(Self(h), depths, pixel_array, NoFault)
                    IN IF Len(depths) # Len(pixel_array.data)
                       THEN o.ret.kind = "ValueError" /\ o.ret.value = None /\ o.self = Self(h)
                       ELSE IF pixel_array.dtype # "uint8"
                       THEN o.ret.kind = "TypeError" /\ o.ret.value = None /\ o.self = Self(h)
                       ELSE FailsNotConnected(Self(h), o)

\* C7 witness: a range query failed with the not-connected error on a handle
\* that was closed after rows had been stored.
C7_Witness ==
    /\ result.op = "query_depth_range"
    /\ result.kind = "RuntimeError"
    /\ result.msg = "Repository not connected. Call connect() first."
    /\ ~_conn["repo"].open
    /\ Count(image_scans) > 0

\* No two rows of table T have the same key.
KeyUnique(T) ==
    /\ \A r \in DOMAIN T : T[r] = 1
    /\ \A r \in DOMAIN T, q \in DOMAIN T : r.key = q.key => r = q

\* On a connected handle: get_all_metadata() is the metadata table read as a
\* mapping, get_metadata(k) is that mapping's value at k or None, and
\* set_metadata(k, v) changes the mapping at k to v and nowhere else.
MetadataReadsLatest(self) ==
    LET all == get_all_metadata(self)
    IN /\ all.ret.kind = "ok"
       /\ DOMAIN all.ret.value = {r.key : r \in DOMAIN self.metadata}
       /\ \A r \in DOMAIN self.metadata : all.ret.value[r.key] = r.value
       /\ \A k \in MetaKeys :
              LET got == get_metadata(self, k)
              IN /\ got.ret.kind = "ok"
                 /\ got.ret.value = (IF k \in DOMAIN all.ret.value
                                     THEN Some(all.ret.value[k]) ELSE None)
       /\ \A k \in MetaKeys, v \in MetaValues :
              LET o == set_metadata(self, k, v)
              IN /\ o.ret.kind = "ok"
                 /\ get_metadata(o.self, k).ret.value = Some(v)
                 /\ get_all_metadata(o.self).ret.value
                        = [x \in DOMAIN all.ret.value \cup {k} |->
                              IF x = k THEN v ELSE all.ret.value[x]]

\* C8: no key is set at the start and only a successful set_metadata changes
\* the metadata; in every reachable state the metadata has one row per key,
\* get_all_metadata() is exactly that mapping, get_metadata(k) returns its
\* value at k and None, not an error, for a key that is not set, and
\* set_metadata(k, v) makes v the value at k and leaves the other keys alone.
\* Hence get_metadata(k) is the value of the most recent set_metadata(k, v).
C8_MetadataLatestValue ==
    /\ metadata = EmptyBag
    /\ [](/\ KeyUnique(metadata)
          /\ \A h \in Callers : _conn[h].open => MetadataReadsLatest(Self(h)))
    /\ [][metadata' # metadata => result'.op = "set_metadata" /\ result'.kind = "ok"]_vars

\* C8 witness: get_metadata returned the value set last for a key that had
\* been set twice or once, the other key never having been set.
C8_Witness ==
    /\ result.op = "get_metadata"
    /\ result.kind = "ok"
    /\ result.value = Some("1.0")
    /\ DOMAIN metadata = {[key |-> "source_file", value |-> "1.0"]}
    /\ get_metadata(Self("repo"), "version").ret.value = None

\* C9: the metadata and the row table are independent.  On a connected
\* handle set_metadata leaves the stored rows, get_row_count() and
\* get_depth_bounds() unchanged; a successful bulk_insert_scans leaves the
\* metadata unchanged; the read operations change nothing.
C9_MetadataAndRowsIndependent ==
    \A h \in Callers : _conn[h].open =>
        LET self == Self(h)
        IN /\ \A k \in MetaKeys, v \in MetaValues :
                  LET o == set_metadata(self, k, v)
                  IN /\ o.self.image_scans = self.image_scans
                     /\ Scans(o.self) = Scans(self)
                     /\ get_row_count(o.self).ret = get_row_count(self).ret
                     /\ get_depth_bounds(o.self).ret = get_depth_bounds(self).ret
           /\ \A in \in ValidBulk :
                  LET o == bulk_insert_scans(self, in[1], in[2], NoFault)
                  IN /\ o.ret.kind = "ok"
                     /\ o.self.metadata = self.metadata
                     /\ get_all_metadata(o.self).ret = get_all_metadata(self).ret
           /\ \A a \in QueryArgs, b \in QueryArgs : query_depth_range(self, a, b).self = self
           /\ get_depth_bounds(self).self = self
           /\ get_row_count(self).self = self
           /\ is_populated(self).self = self
           /\ \A k \in MetaKeys : get_metadata(self, k).self = self
           /\ get_all_metadata(self).self = self

(***************************************************************************)
(* Properties of the ingestion runs, under SpecIngestion.                  *)
(***************************************************************************)
\* The run is at one of the stages before Store and has not raised.
BeforeStore == Running /\ run.pc \in {"load", "validate", "resize"}

\* The table of the run has no depth column, or no row with a depth.
NothingToClean ==
    \/ "depth" \notin Range(run.df[1].columns)
    \/ \A i \in 1..Len(run.df[1].rows) : run.df[1].rows[i][1] = NaN

\* C10: a run of run_ingestion that fails in Load, Validate&Clean or Resize
\* aborts with that stage's error and never opens or writes the store.
\* Every step of a run that is before its Store stage, the failing step
\* included, leaves the rows, the metadata and every connection as they
\* were; a run that has raised takes no further step (the next step is the
\* start of another run, which changes nothing either); the run's store
\* handle is not connected while the run is before Store or has failed
\* there.  A Load failure is the missing-file error; a table without a depth
\* column or without a row that has a depth fails Validate&Clean; a method
\* that is not an interpolation method fails Resize with the ValueError.
C10_EarlyFailureNeverReachesStore ==
    /\ []((run.pc \in {"load", "validate", "resize"}) =>
              /\ ~_conn["ingest"].open
              /\ (run.error # None /\ run.pc = "load"
                      => run.error[1].kind = "FileNotFoundError")
              /\ (run.error # None /\ run.pc = "validate"
                      => run.error[1].kind \in {"KeyError", "ValueError"})
              /\ (run.error # None /\ run.pc = "resize"
                      => run.error[1].kind = "ValueError"))
    /\ [][/\ BeforeStore =>
                 /\ image_scans' = image_scans
                 /\ metadata' = metadata
                 /\ _conn' = _conn
          /\ (BeforeStore /\ run.pc = "validate" /\ NothingToClean)
                 => (run'.pc = "validate" /\ run'.error # None)
          /\ (BeforeStore /\ run.pc = "resize"
                 /\ run.settings[1].interpolation_method \notin INTERPOLATION_METHODS)
                 => (run'.pc = "resize" /\ run'.error # None)
          /\ run.error # None =>
                 /\ run'.pc = "load" /\ run'.error = None
                 /\ image_scans' = image_scans
                 /\ metadata' = metadata
                 /\ _conn' = _conn]_vars

\* C10 witness: a run failed in Resize on an unknown interpolation method,
\* on a store that an earlier run had written rows to.
C10_Witness ==
    /\ run.pc = "resize"
    /\ run.error # None
    /\ run.error[1].kind = "ValueError"
    /\ run.settings[1].interpolation_method = "INVALID"
    /\ Count(image_scans) > 0
    /\ ~_conn["ingest"].open

\* The stages in their order, each with the stage that follows it.
StageOrder == {<<"load", "validate">>, <<"validate", "resize">>,
               <<"resize", "store">>, <<"store", "done">>}

\* The keys store_to_database writes.
ProvenanceKeys == {"original_width", "resized_width", "depth_min", "depth_max",
                   "depth_step", "row_count", "interpolation_method", "source_file",
                   "pixel_range_original", "validation_summary"}

\* What store_to_database does with the run's data on the run's new handle.
StoreOutcome(report, fault) ==
    store_to_database(connect([Self("ingest") EXCEPT !._conn = NoConn]).self,
                      run.cleaned[1].depths, run.resized[1], report, run.settings[1], fault)

\* C11: the stages of a run execute at most once each, in the order Load,
\* Validate&Clean, Resize, Store: every step of a run either moves it from
\* a stage to the next one or fails it at the stage it is at, and a run
\* that has failed or returned takes no step but the start of another run.
\* Within Store no metadata entry is written before the bulk write has
\* committed: a store_to_database whose bulk write fails leaves the metadata
\* as it was, and one that returns has written every row and every key.  A
\* run returns the report only at the end of Store, all keys written.
C11_StagesInOrderMetadataAfterRows ==
    /\ [][\/ ~Running /\ run'.pc = "load" /\ run'.error = None /\ run'.returned = None
          \/ Running /\ run'.error # None /\ run'.pc = run.pc /\ run'.returned = None
          \/ Running /\ run'.error = None /\ <<run.pc, run'.pc>> \in StageOrder]_vars
    /\ []((Running /\ run.pc = "store") =>
             \A fault \in Faults(Len(run.cleaned[1].depths)) :
                 \A report \in {run.cleaned[1].report, PlainReport(run.cleaned[1].report)} :
                     LET o == StoreOutcome(report, fault)
                     IN /\ fault.at > 0 =>
                               /\ o.ret.kind = "OperationalError"
                               /\ o.self.metadata = metadata
                               /\ Meta(o.self) = metadata
                        /\ o.ret.kind = "ok" =>
                               /\ AllStored(o.self.image_scans, run.cleaned[1].depths,
                                            run.resized[1].data)
                               /\ {r.key : r \in DOMAIN o.self.metadata} = ProvenanceKeys
                        /\ (fault.at = 0 /\ report = PlainReport(run.cleaned[1].report))
                               => o.ret.kind = "ok")
    /\ [](run.returned # None =>
             /\ run.pc = "done"
             /\ {r.key : r \in DOMAIN metadata} = ProvenanceKeys)
    /\ [](run.pc = "done" => run.returned # None /\ run.error = None)

\* C11 witness: a run went through Load, Validate&Clean and Resize and
\* failed in Store by its bulk write, on a store with rows of an earlier
\* run; no metadata has been written.
C11_Witness ==
    /\ run.pc = "store"
    /\ run.error # None
    /\ run.error[1].kind = "OperationalError"
    /\ run.resized # None
    /\ Count(image_scans) > 0
    /\ metadata = EmptyBag

\* Step 4 of the run on the database file with tables T, without a storage
\* fault: the handle is connected, store_to_database runs, the handle is
\* closed.
StoreRun(T, report) ==
    LET repo == connect([image_scans |-> T.image_scans, metadata |-> T.metadata,
                         _conn |-> NoConn]).self
        stored == store_to_database(repo, run.cleaned[1].depths, run.resized[1],
                                    report, run.settings[1], NoFault)
    IN [self |-> close(stored.self).self, ret |-> stored.ret]

\* C12: ingestion is idempotent.  A run that has come to Store with the data
\* of its table and settings succeeds, a second run with the same data
\* succeeds as well, and the rows and the metadata after the second run are
\* those after the first.
C12_IngestionIdempotent ==
    (Running /\ run.pc = "store") =>
        LET first == StoreRun(Self("ingest"), run.cleaned[1].report)
            second == StoreRun(first.self, run.cleaned[1].report)
        IN /\ first.ret.kind = "ok"
           /\ second.ret.kind = "ok"
           /\ second.self.image_scans = first.self.image_scans
           /\ second.self.metadata = first.self.metadata

\* C13: all rows of a populated store have the same number of pixels, in
\* every store state that runs of the ingestion reach.
C13_UniformRowWidth ==
    \A r \in DOMAIN image_scans, q \in DOMAIN image_scans :
        Len(r.pixel_data) = Len(q.pixel_data)

\* The results validate_and_clean can return on the table the run has loaded.
Cleaned == {r.value[1] : r \in {x \in validate_and_clean(run.df[1]) : x.kind = "ok"}}

\* The depth column of the loaded table, and the depths its rows have.
DepthColumn == CHOOSE j \in 1..Len(run.df[1].columns) : run.df[1].columns[j] = "depth"
InputDepths == {run.df[1].rows[i][DepthColumn][1] :
                   i \in {k \in 1..Len(run.df[1].rows) : run.df[1].rows[k][DepthColumn] # NaN}}

\* C14: for every table on which validate_and_clean returns, the returned
\* depths are strictly increasing, they are the depths the rows of the table
\* have, each once, whatever the order, the duplicates and the missing
\* depths of the rows, and the report's is_monotonic is true.
C14_DepthsStrictlyIncreasing ==
    (Running /\ run.pc = "validate") =>
        \A c \in Cleaned :
            /\ \A i \in 1..(Len(c.depths) - 1) : c.depths[i] < c.depths[i + 1]
            /\ Range(c.depths) = InputDepths
            /\ Len(c.pixels) = Len(c.depths)
            /\ c.report.is_monotonic

\* C14 witness: a table whose rows come in descending depth after a row
\* without depth, which validate_and_clean returns in ascending depth.
C14_Witness ==
    /\ Running /\ run.pc = "validate"
    /\ Len(run.df[1].rows) = 2
    /\ "depth" \in Range(run.df[1].columns)
    /\ run.df[1].rows[1][1] = Some(2)
    /\ run.df[1].rows[2][1] = Some(1)
    /\ \E c \in Cleaned : c.depths = <<1, 2>>

\* The rows of the loaded table that have a depth, as indices, and the pixel
\* cells of row k.
WithDepth == {k \in 1..Len(run.df[1].rows) : run.df[1].rows[k][DepthColumn] # NaN}
PixelCells(k) ==
    Take(run.df[1].rows[k], {j \in 1..Len(run.df[1].columns) : j # DepthColumn})

\* C15: validate_and_clean never returns a pixel matrix with a missing
\* value; a table in which a row with a depth has all its pixels missing
\* makes it fail.
C15_NoMissingPixelReturned ==
    (Running /\ run.pc = "validate") =>
        /\ \A c \in Cleaned :
               \A i \in 1..Len(c.pixels) :
                   \A j \in 1..Len(c.pixels[i]) : c.pixels[i][j] # NaN
        /\ ("depth" \in Range(run.df[1].columns)
              /\ \A k \in WithDepth : \A j \in 1..Len(PixelCells(k)) : PixelCells(k)[j] = NaN
              /\ WithDepth # {})
               => Cleaned = {}

\* C16: on a table all of whose rows are dropped by cleaning, the empty
\* table included, validate_and_clean fails and returns no report, and it
\* fails before it computes a minimum over the empty pixel matrix.
C16_AllRowsDroppedFailsFast ==
    (Running /\ run.pc = "validate" /\ "depth" \in Range(run.df[1].columns)
             /\ WithDepth = {}) =>
        \A r \in validate_and_clean(run.df[1]) :
            /\ r.kind # "ok"
            /\ r.value = None
            /\ r.msg # "zero-size array to reduction operation minimum which has no identity"

\* C17: every row validate_and_clean drops is counted in the report:
\* raw_rows = clean_rows + null_rows_dropped + duplicate_depths_dropped.
C17_DroppedRowsCounted ==
    (Running /\ run.pc = "validate") =>
        \A c \in Cleaned :
            c.report.raw_rows = c.report.clean_rows + c.report.null_rows_dropped.item
                                    + c.report.duplicate_depths_dropped.item

\* The pixel cells of the loaded table are all numbers in 0..255, so that
\* cleaning changes no cell.
AllCellsInRange ==
    \A k \in 1..Len(run.df[1].rows) : \A j \in 1..Len(PixelCells(k)) :
        /\ PixelCells(k)[j] # NaN
        /\ PixelCells(k)[j][1] >= 0 /\ PixelCells(k)[j][1] <= 255

\* C18: of the rows that share a depth validate_and_clean keeps the one
\* that comes first in the table, and duplicate_depths_dropped is the
\* number of the other rows.
C18_KeepsFirstOfDuplicates ==
    (Running /\ run.pc = "validate" /\ "depth" \in Range(run.df[1].columns)
             /\ AllCellsInRange) =>
        \A c \in Cleaned :
            /\ \A i \in 1..Len(c.depths) :
                   LET same == {k \in WithDepth :
                                   run.df[1].rows[k][DepthColumn][1] = c.depths[i]}
                       first == CHOOSE k \in same : \A m \in same : k <= m
                   IN c.pixels[i] = PixelCells(first)
            /\ c.report.duplicate_depths_dropped.item
                   = Cardinality(WithDepth) - Cardinality(InputDepths)

\* The cells of row k that are numbers, and their sum.
Present(k) == {j \in 1..Len(PixelCells(k)) : PixelCells(k)[j] # NaN}
SumPresent(k) == SumCells(PixelCells(k))
\* v is the mean of the numbers of row k; v is that mean limited to [0, 255].
MeanIs(v, k) == v * Cardinality(Present(k)) = SumPresent(k)
ClippedMeanIs(v, k) ==
    IF SumPresent(k) < 0 THEN v = 0
    ELSE IF SumPresent(k) > 255 * Cardinality(Present(k)) THEN v = 255
    ELSE MeanIs(v, k)
\* The clipping step of the run that returned c has run.
Clipped(c) ==
    /\ c.report.pixel_min # NaN /\ c.report.pixel_max # NaN
    /\ (c.report.pixel_min[1] < 0 \/ c.report.pixel_max[1] > 255)
\* The cell of the table is returned as it is.
Unchanged(out, k, j) ==
    (PixelCells(k)[j] # NaN /\ PixelCells(k)[j][1] >= 0 /\ PixelCells(k)[j][1] <= 255)
        => out = PixelCells(k)[j]
\* The rows of the table that may have become row i of c: those of its depth.
SourceRows(c, i) == {k \in WithDepth : run.df[1].rows[k][DepthColumn][1] = c.depths[i]}

C20_ReturnedPixelsInRange ==
    (Running /\ run.pc = "validate") =>
        \A c \in Cleaned :
            /\ \A i \in 1..Len(c.pixels) : \A j \in 1..Len(c.pixels[i]) :
                   c.pixels[i][j] # NaN =>
                       (c.pixels[i][j][1] >= 0 /\ c.pixels[i][j][1] <= 255)
            /\ (c.report.pixel_min # NaN /\ c.report.pixel_max # NaN) =>
                   /\ \E k \in WithDepth : c.report.pixel_min \in Range(PixelCells(k))
                   /\ \E k \in WithDepth : c.report.pixel_max \in Range(PixelCells(k))
                   /\ \A i \in 1..Len(c.pixels) : \A j \in 1..Len(c.pixels[i]) :
                          /\ clip(c.report.pixel_min)[1] <= c.pixels[i][j][1]
                          /\ c.pixels[i][j][1] <= clip(c.report.pixel_max)[1]

\* C21: with a supported method, resize_image returns a uint8 matrix with
\* the rows of its input and target_width columns, every entry in 0..255,
\* for a target width below, at and above the input's and for input values
\* of any range.
C21_ResizeShapeAndRange ==
    (run.pc = "resize" /\ run.error = None
       /\ run.settings[1].interpolation_method \in INTERPOLATION_METHODS) =>
        \A r \in resize_image(run.cleaned[1].pixels, run.settings[1].target_width,
                              run.settings[1].interpolation_method) :
            /\ r.kind = "ok"
            /\ r.value[1].dtype = "uint8"
            /\ Len(r.value[1].data) = Len(run.cleaned[1].pixels)
            /\ \A i \in 1..Len(r.value[1].data) :
                   /\ Len(r.value[1].data[i]) = run.settings[1].target_width
                   /\ \A j \in 1..Len(r.value[1].data[i]) : r.value[1].data[i][j] \in 0..255
C21_Witness ==
    /\ run.pc = "store"
    /\ run.cleaned[1].pixels = << <<Some(300)>>, <<Some(0 - 10)>> >>
    /\ run.settings[1].target_width = 2
    /\ run.settings[1].interpolation_method = "BICUBIC"
    /\ run.resized[1].data = << <<255, 255>>, <<0, 0>> >>

\* The text t occurs in the text s.
Contains(s, t) == \E i \in 1..(Len(s) - Len(t) + 1) : SubSeq(s, i, i + Len(t) - 1) = t

\* C22: with a method that is not one of the five, resize_image raises an
\* error whose message names each of the five, resamples nothing and gives
\* no matrix.
C22_UnknownMethodListsValidNames ==
    (run.pc = "resize" /\ run.error = None
       /\ run.settings[1].interpolation_method
              \notin {"NEAREST", "BILINEAR", "BICUBIC", "AREA", "LANCZOS4"}) =>
        LET out == resize_image(run.cleaned[1].pixels, run.settings[1].target_width,
                                run.settings[1].interpolation_method)
        IN /\ Cardinality(out) = 1
           /\ \A r \in out :
                  /\ r.kind = "ValueError"
                  /\ r.value = None
                  /\ \A m \in {"NEAREST", "BILINEAR", "BICUBIC", "AREA", "LANCZOS4"} :
                         Contains(r.msg, m)
C22_Witness ==
    /\ run.pc = "resize"
    /\ run.settings[1].interpolation_method = "INVALID"
    /\ run.error # None
    /\ run.error[1].kind = "ValueError"
    /\ run.resized = None
    /\ run.cleaned[1].pixels = << <<Some(0), NaN>> >>

\* Bulk writes of one or more pairs with pairwise distinct depths.
DistinctBulk ==
    {in \in ValidBulk : Len(in[1]) >= 1 /\ Cardinality(Range(in[1])) = Len(in[1])}

App == Self(_repository[1])

\* C24: /api/v1/image, /api/v1/image/raw and ImageQueryParams reject every
\* request with depth_min >= depth_max, depth_min = depth_max included, with
\* 400 (a validation error for the schema) in every store state, the empty
\* store included, and without a call of the repository.
C24_RejectsUnorderedDepths ==
    \A depth_min \in QueryArgs, depth_max \in QueryArgs : depth_min >= depth_max =>
        /\ _repository # None =>
               /\ \A colormap \in ColormapName, format \in ImageFormat :
                      LET r == get_image_frame(App, depth_min, depth_max, colormap, format)
                      IN r.status = 400 /\ r.calls = <<>> /\ r.body = None
               /\ LET r == get_raw_frame(App, depth_min, depth_max)
                  IN r.status = 400 /\ r.calls = <<>> /\ r.body = None
        /\ \A colormap \in ColormapName, format \in ImageFormat :
               LET r == ImageQueryParams(depth_min, depth_max, colormap, format)
               IN r.kind = "ValidationError" /\ r.value = None
C24_Witness ==
    /\ _repository # None
    /\ Count(image_scans) = 2
    /\ result.op = "get_raw_frame"
    /\ result.value.status = 400

\* The rows the application's handle reads with depth in [depth_min, depth_max].
RowsInRange(depth_min, depth_max) ==
    {r \in StoredRows(App) : depth_min <= r.depth /\ r.depth <= depth_max}

\* C25: a request to /api/v1/image with depth_min < depth_max and a
\* registered colormap is answered by the store state alone: 503 if the
\* store holds no rows, 404 if it holds rows but none with depth in
\* [depth_min, depth_max], and 200 if a stored row has its depth there.
C25_ImageStatusByStoreState ==
    _repository # None =>
        \A depth_min \in QueryArgs, depth_max \in QueryArgs : depth_min < depth_max =>
            \A colormap \in _colormaps, format \in ImageFormat :
                LET r == get_image_frame(App, depth_min, depth_max, colormap, format)
                IN r.status = IF StoredRows(App) = {} THEN 503
                              ELSE IF RowsInRange(depth_min, depth_max) = {} THEN 404
                              ELSE 200

FrameHeaders == {"X-Frame-Depth-Min", "X-Frame-Depth-Max", "X-Frame-Rows", "X-Frame-Width"}

\* C29: for the same depth_min, depth_max and store state, /api/v1/image
\* with a registered colormap and /api/v1/image/raw have the same status,
\* and with 200 they return the same rows; in every store state, the empty
\* store included.
C29_ImageAndRawAgree ==
    _repository # None =>
        \A depth_min \in QueryArgs, depth_max \in QueryArgs :
            \A colormap \in _colormaps, format \in ImageFormat :
                LET image == get_image_frame(App, depth_min, depth_max, colormap, format)
                    raw == get_raw_frame(App, depth_min, depth_max)
                IN /\ image.status = raw.status
                   /\ image.status = 200 =>
                          /\ raw.body[1] = frame_tobytes(image.body[1].pixel_array)
                          /\ \A k \in FrameHeaders : image.headers[k] = raw.headers[k]

\* The response r to a request for [depth_min, depth_max] carries the frame
\* and the headers of the rows query_depth_range returns for it.
DescribesRows(r, frame, depth_min, depth_max) ==
    LET rows == query_depth_range(App, depth_min, depth_max).ret.value
        in_range == RowsInRange(depth_min, depth_max)
        lo == CHOOSE x \in in_range : \A y \in in_range : x.depth <= y.depth
        hi == CHOOSE x \in in_range : \A y \in in_range : x.depth >= y.depth
    IN /\ in_range # {}
       /\ frame = [i \in 1..Len(rows) |-> rows[i].pixel_data]
       /\ \A i \in 1..(Len(rows) - 1) : rows[i].depth < rows[i + 1].depth
       /\ r.headers["X-Frame-Rows"] = ToString(Cardinality(in_range))
       /\ r.headers["X-Frame-Depth-Min"] = str_float(lo.depth)
       /\ r.headers["X-Frame-Depth-Max"] = str_float(hi.depth)
       /\ depth_min <= lo.depth /\ lo.depth <= hi.depth /\ hi.depth <= depth_max
       /\ \A x \in in_range : r.headers["X-Frame-Width"] = ToString(Len(x.pixel_data))

\* C30: every 200 response of /api/v1/image and /api/v1/image/raw is built
\* from the rows of query_depth_range stacked in ascending depth, and its
\* headers give the number of stored rows with depth in
\* [depth_min, depth_max], their smallest and largest depth, both inside
\* [depth_min, depth_max], and the stored row width.
C30_ResponseDescribesRows ==
    _repository # None =>
        \A depth_min \in QueryArgs, depth_max \in QueryArgs :
            /\ \A colormap \in _colormaps, format \in ImageFormat :
                   LET r == get_image_frame(App, depth_min, depth_max, colormap, format)
                   IN r.status = 200 =>
                          /\ r.body[1].colormap = colormap
                          /\ r.body[1].output_format = format
                          /\ DescribesRows(r, r.body[1].pixel_array, depth_min, depth_max)
            /\ LET r == get_raw_frame(App, depth_min, depth_max)
               IN r.status = 200 =>
                      \E frame \in SeqsUpTo(StoredPixelRows, MaxDepth) :
                          /\ r.body[1] = frame_tobytes(frame)
                          /\ DescribesRows(r, frame, depth_min, depth_max)
C30_Witness ==
    /\ result.op = "get_image_frame"
    /\ result.value.status = 200
    /\ result.value.headers["X-Frame-Rows"] = "2"
    /\ result.value.headers["X-Frame-Depth-Min"] = "1.0"
    /\ result.value.headers["X-Frame-Depth-Max"] = "2.0"
    /\ result.value.body[1].pixel_array = << <<255, 0>>, <<0, 255>> >>

\* The value the metadata of self holds under key, "" if it holds none.
MetaValue(self, key) ==
    LET v == get_metadata(self, key).ret.value IN IF v = None THEN "" ELSE v[1]

\* The metadata a fresh handle reads in the store self describes the rows
\* it reads there.
MetadataDescribesRows(self) ==
    LET repo == connect([self EXCEPT !._conn = NoConn]).self
        bounds == get_depth_bounds(repo).ret
    IN /\ bounds.kind = "ok"
       /\ MetaValue(repo, "row_count") = ToString(get_row_count(repo).ret.value)
       /\ MetaValue(repo, "depth_min") = str_float(bounds.value[1])
       /\ MetaValue(repo, "depth_max") = str_float(bounds.value[2])
       /\ \A r \in StoredRows(repo) :
              MetaValue(repo, "resized_width") = ToString(Len(r.pixel_data))

\* C26: a run that has come to Store returns, whatever runs came before it,
\* and after it the metadata describes the stored rows: row_count is
\* get_row_count(), depth_min and depth_max are get_depth_bounds(), and
\* resized_width is the width of every stored row.  The same holds of a
\* store_to_database that is handed the report with plain counts.
C26_MetadataDescribesStore ==
    (Running /\ run.pc = "store") =>
        \A report \in {run.cleaned[1].report, PlainReport(run.cleaned[1].report)} :
            LET out == StoreRun([image_scans |-> image_scans, metadata |-> metadata], report)
            IN out.ret.kind = "ok" /\ MetadataDescribesRows(out.self)

\* The rows a run with input `in` writes.
RunRows(in) ==
    {[depth |-> in.depths[i], pixel_data |-> tobytes(in.pixels.data[i], in.pixels.dtype)] :
        i \in 1..Len(in.depths)}

\* Process w stopped after its bulk write committed and before its last
\* metadata entry was written: it died, or json.dumps raised.
StoppedAfterRows(w) ==
    /\ writer[w].pc \in {"failed", "crashed"}
    /\ writer[w].stopped_at \in {"build", "metadata"}

\* One step of a run outside a cross-table transaction: a step that changes
\* the metadata is the write of the run's next entry, by a run whose rows
\* are all stored, and it changes that entry and no row; the step in which
\* a run stops after its bulk write changes no metadata entry and leaves
\* every row of the run stored.
SeparateCommits(w) ==
    /\ metadata' # metadata =>
           /\ writer[w].pc = "metadata"
           /\ writer[w].items # <<>>
           /\ RunRows(writer[w].in[1]) \subseteq DOMAIN image_scans
           /\ image_scans' = image_scans
           /\ metadata' = InsertOrReplaceMeta(metadata,
                              [key |-> Head(writer[w].items)[1],
                               value |-> Head(writer[w].items)[2]])
    /\ (StoppedAfterRows(w)' /\ ~StoppedAfterRows(w)) =>
           /\ metadata' = metadata
           /\ RunRows(writer[w].in[1]) \subseteq DOMAIN image_scans'

Written(w) ==
    IF writer[w].pc \in {"build", "metadata", "done"} \/ StoppedAfterRows(w)
    THEN RunRows(writer[w].in[1]) ELSE {}

\* Every bulk write is atomic: the store holds one row per depth, every row
\* is a row one of the runs committed, every depth a run committed is
\* there, and the rows of the run that committed last are all there.
RowsWhollyOfOneRun ==
    /\ DOMAIN image_scans \subseteq UNION {Written(w) : w \in Writers}
    /\ \A r \in UNION {Written(w) : w \in Writers} :
           \E q \in DOMAIN image_scans : q.depth = r.depth
    /\ \A q \in DOMAIN image_scans :
           /\ image_scans[q] = 1
           /\ \A r \in DOMAIN image_scans : r.depth = q.depth => r = q
    /\ \E w \in Writers : Written(w) \subseteq DOMAIN image_scans

\* A run comes to its metadata writes unless it dies or its bulk write
\* meets a storage fault.
RunsReachMetadata ==
    \A w \in Writers : writer[w].pc = "failed" => writer[w].stopped_at = "bulk"

\* C28: two runs with different inputs on connections of their own write
\* the same store side by side: each run's bulk write is atomic, so every
\* stored row is wholly the row of one run, and each run goes on to write
\* its metadata entries between the writes of the other, so that the store
\* can end with entries of both.
C28_ConcurrentRunsInterleaveWrites ==
    /\ RowsWhollyOfOneRun
    /\ RunsReachMetadata

====
